---- MODULE Spec2Model ----
(***************************************************************************)
(* A model of the job matcher: the bulk matching query and the /run        *)
(* endpoint of index.js, and the in-process rules of matchingLogic.js.     *)
(*                                                                         *)
(* Text is a sequence of one-character strings, so that splitting,         *)
(* trimming and quoting are computed and not assumed.  A timestamp is a    *)
(* number of clock ticks; a calendar day holds TicksPerDay of them.        *)
(***************************************************************************)
EXTENDS Integers, Sequences, FiniteSets, Bags, TLC

VARIABLES
    users_raw_latest,   \* table firestore_export.users_raw_latest (read only)
    clean_jobs_view,    \* view matching.clean_jobs_view (read only)
    match_history,      \* table matching.match_history: a bag of rows
    matchedJobs,        \* Firestore users/{u}/matchedJobs/{j}: key -> document
    clock,              \* the wall clock, in ticks
    pc,                 \* per request slot: where the /run handler stands
    jobsToSync,         \* per request slot: the rows the query returned
    nowOf,              \* per request slot: const now = new Date()
    firestoreWrites,    \* per request slot: match write -> promise state
    historyInsert,      \* per request slot: promise state of table.insert
    res,                \* per request slot: the response sent, if any
    caught,             \* per request slot: the error the catch block got
    call,               \* in-process rules: the function called, its arguments
    returned            \* in-process rules: what the call gave

vars == <<users_raw_latest, clean_jobs_view, match_history, matchedJobs, clock,
          pc, jobsToSync, nowOf, firestoreWrites, historyInsert, res, caught,
          call, returned>>

tables == <<users_raw_latest, clean_jobs_view>>
engine == <<call, returned>>
handler == <<match_history, matchedJobs, clock, pc, jobsToSync, nowOf,
             firestoreWrites, historyInsert, res, caught>>

---------------------------------------------------------------------------
(* Bounds of the model.                                                    *)

\* ticks of the clock in one calendar day
TicksPerDay == 2
\* last calendar day the clock reaches when passes follow one another
MaxDay == 15
\* last calendar day the clock reaches when queries and writes may fail
MaxDayFail == 4
\* last calendar day the clock reaches when passes overlap
MaxDayOverlap == 1
\* request slots: how many /run passes may be in flight at once
MaxSlots == 2

---------------------------------------------------------------------------
(* Values.  A field that may be missing is boxed, so that a missing array  *)
(* is never compared with an array.                                        *)

undefined == [t |-> "undefined"]
null == [t |-> "null"]
Num(n) == [t |-> "number", v |-> n]
Str(s) == [t |-> "string", v |-> s]
Arr(a) == [t |-> "array", v |-> a]
Bool(b) == [t |-> "boolean", v |-> b]

Range(s) == {s[i] : i \in 1..Len(s)}

Min2(a, b) == IF a <= b THEN a ELSE b
Max2(a, b) == IF a >= b THEN a ELSE b

RECURSIVE SetMax(_)
SetMax(S) ==
    LET x == CHOOSE y \in S : TRUE
    IN  IF S = {x} THEN x ELSE Max2(x, SetMax(S \ {x}))

\* canonical tokens
remote == <<"r", "e", "m", "o", "t", "e">>
tel_aviv == <<"t", "e", "l", "_", "a", "v", "i", "v">>
berlin == <<"b", "e", "r", "l", "i", "n">>
software == <<"s", "o", "f", "t", "w", "a", "r", "e">>
hardware == <<"h", "a", "r", "d", "w", "a", "r", "e">>
team_lead == <<"t", "e", "a", "m", "_", "l", "e", "a", "d">>
vp == <<"v", "p">>
BSc == <<"B", ".", "S", "c">>

\* enumerated strings
completed == <<"c", "o", "m", "p", "l", "e", "t", "e", "d">>
student_position ==
    <<"s", "t", "u", "d", "e", "n", "t", "_", "p", "o", "s", "i", "t", "i", "o", "n">>
no_experience_position ==
    <<"n", "o", "_", "e", "x", "p", "e", "r", "i", "e", "n", "c", "e", "_",
      "p", "o", "s", "i", "t", "i", "o", "n">>
experience_position ==
    <<"e", "x", "p", "e", "r", "i", "e", "n", "c", "e", "_",
      "p", "o", "s", "i", "t", "i", "o", "n">>
none == <<"n", "o", "n", "e">>
no_management == <<"n", "o", "_", "m", "a", "n", "a", "g", "e", "m", "e", "n", "t">>
management_only ==
    <<"m", "a", "n", "a", "g", "e", "m", "e", "n", "t", "_", "o", "n", "l", "y">>
management_and_individual ==
    <<"m", "a", "n", "a", "g", "e", "m", "e", "n", "t", "_", "a", "n", "d", "_",
      "i", "n", "d", "i", "v", "i", "d", "u", "a", "l">>

---------------------------------------------------------------------------
(* Text and SQL functions the query uses.                                  *)

DigitChars == <<"0", "1", "2", "3", "4", "5", "6", "7", "8", "9">>
IsDigit(c) == c \in Range(DigitChars)
DigitValue(c) == (CHOOSE i \in 1..10 : DigitChars[i] = c) - 1

\* the decimal text of a natural number
RECURSIVE Digits(_)
Digits(n) ==
    IF n < 10 THEN <<DigitChars[n + 1]>>
    ELSE Digits(n \div 10) \o <<DigitChars[(n % 10) + 1]>>

\* the number a text of decimal digits denotes
RECURSIVE ParseDigits(_)
ParseDigits(s) ==
    IF s = <<>> THEN 0
    ELSE 10 * ParseDigits(SubSeq(s, 1, Len(s) - 1)) + DigitValue(s[Len(s)])

RECURSIVE TrimLeft(_, _)
TrimLeft(s, cs) ==
    IF s # <<>> /\ s[1] \in cs THEN TrimLeft(Tail(s), cs) ELSE s

RECURSIVE TrimRight(_, _)
TrimRight(s, cs) ==
    IF s # <<>> /\ s[Len(s)] \in cs
    THEN TrimRight(SubSeq(s, 1, Len(s) - 1), cs) ELSE s

\* TRIM(x, '"'): NULL stays NULL
TRIM(x, cs) ==
    IF x = null THEN null ELSE Str(TrimRight(TrimLeft(x.v, cs), cs))

Quote == {"\""}

\* the JSON text of a string element
JsonString(s) == <<"\"">> \o s \o <<"\"">>

\* JSON_EXTRACT_SCALAR: a string as it is, a number as its decimal text,
\* NULL for a missing field, a JSON null, an array
JSON_EXTRACT_SCALAR(x) ==
    CASE x.t = "string" -> x
      [] x.t = "number" -> Str(Digits(x.v))
      [] OTHER -> null

\* JSON_EXTRACT_ARRAY: the elements as JSON text (strings keep their quotes)
JSON_EXTRACT_ARRAY(x) ==
    IF x.t = "array"
    THEN Arr([i \in 1..Len(x.v) |-> Str(JsonString(x.v[i]))])
    ELSE null

CAST_INT64(x) == IF x = null THEN null ELSE Num(ParseDigits(x.v))

LEAST(a, b) == IF a = null \/ b = null THEN null ELSE Num(Min2(a.v, b.v))
GREATEST(a, b) == IF a = null \/ b = null THEN null ELSE Num(Max2(a.v, b.v))
COALESCE(a, d) == IF a = null THEN d ELSE a.v
IFNULL(a, d) == IF a = null THEN d ELSE a.v
ARRAY_LENGTH(a) == Len(a)

\* a = b is TRUE (not FALSE, not NULL)
SqlEq(a, b) == a # null /\ b # null /\ a = b
\* a != b is TRUE
SqlNe(a, b) == a # null /\ b # null /\ a # b
\* x IN UNNEST(arr) is TRUE
InUnnest(x, arr) == x # null /\ \E i \in 1..Len(arr) : arr[i] = x.v

\* CAST(x AS STRING): a string as it is, an integer as its decimal text
CAST_STRING(x) ==
    CASE x = null -> null
      [] x.t = "number" -> Str(Digits(x.v))
      [] OTHER -> x

\* DATE(ts): the calendar day of a timestamp
DATE(ts) == ts \div TicksPerDay
\* DATE_DIFF(a, b, DAY)
DATE_DIFF(a, b) == a - b

---------------------------------------------------------------------------
(* MASTER_MATCHING_QUERY of index.js, one definition per CTE and filter.   *)
(* A condition is written as "is TRUE": a NULL operand makes it not TRUE,  *)
(* which is all that WHERE and CASE WHEN look at.                          *)

\* CTE 1: one row per user whose profile state is 'completed'
UserPreferences(users) ==
    { [ user_id |-> u.document_id,
        status |-> JSON_EXTRACT_SCALAR(u.data.preferences.status),
        min_experience |->
            LEAST(CAST_INT64(JSON_EXTRACT_SCALAR(u.data.preferences.minExperience)),
                  CAST_INT64(JSON_EXTRACT_SCALAR(u.data.preferences.maxExperience))),
        max_experience |->
            GREATEST(CAST_INT64(JSON_EXTRACT_SCALAR(u.data.preferences.minExperience)),
                     CAST_INT64(JSON_EXTRACT_SCALAR(u.data.preferences.maxExperience))),
        degree |-> TRIM(JSON_EXTRACT_SCALAR(u.data.preferences.degree), Quote),
        management_interest |->
            TRIM(JSON_EXTRACT_SCALAR(u.data.preferences.managementInterest), Quote),
        management_level |-> JSON_EXTRACT_ARRAY(u.data.preferences.managementLevel),
        domains |-> JSON_EXTRACT_ARRAY(u.data.preferences.domains),
        locations |-> JSON_EXTRACT_ARRAY(u.data.preferences.locations) ]
      : u \in { d \in users : SqlEq(JSON_EXTRACT_SCALAR(d.data.state), Str(completed)) } }

\* FILTER 1: experience / status
Filter1(user, job) ==
    \/ /\ SqlEq(user.status, Str(student_position))
       /\ SqlEq(job.is_student_job, Bool(TRUE))
       /\ InUnnest(user.degree, IFNULL(job.required_degrees, <<>>))
    \/ /\ SqlEq(user.status, Str(no_experience_position))
       /\ InUnnest(Num(0), IFNULL(job.experience_levels, <<>>))
    \/ /\ SqlEq(user.status, Str(experience_position))
       /\ \E k \in 1..Len(IFNULL(job.experience_levels, <<>>)) :
            LET job_level == IFNULL(job.experience_levels, <<>>)[k]
            IN  /\ job_level >= COALESCE(user.min_experience, 0)
                /\ job_level <= COALESCE(user.max_experience, 100)

\* FILTER 2: location
Filter2(user, job) ==
    \E k \in 1..Len(IFNULL(user.locations, <<>>)) :
        LET user_loc == IFNULL(user.locations, <<>>)[k]
        IN  \/ InUnnest(TRIM(user_loc, Quote), IFNULL(job.locations, <<>>))
            \/ SqlEq(TRIM(user_loc, Quote), Str(remote))
            \/ InUnnest(Str(remote), IFNULL(job.locations, <<>>))

\* FILTER 3: domain
Filter3(user, job) ==
    \/ user.domains = null
    \/ ARRAY_LENGTH(IFNULL(user.domains, <<>>)) = 0
    \/ \E k \in 1..Len(IFNULL(user.domains, <<>>)) :
        LET user_domain == IFNULL(user.domains, <<>>)[k]
        IN  InUnnest(TRIM(user_domain, Quote), IFNULL(job.domains, <<>>))

\* EXISTS (... user_level IN UNNEST(jobs.leadership_levels))
LevelMatches(user, job) ==
    \E k \in 1..Len(IFNULL(user.management_level, <<>>)) :
        LET user_level == IFNULL(user.management_level, <<>>)[k]
        IN  InUnnest(TRIM(user_level, Quote), IFNULL(job.leadership_levels, <<>>))

\* FILTER 4: leadership / management (the first WHEN that is TRUE decides)
Filter4(user, job) ==
    CASE SqlNe(user.status, Str(experience_position)) ->
            ARRAY_LENGTH(IFNULL(job.leadership_levels, <<>>)) = 0
      [] /\ ~SqlNe(user.status, Str(experience_position))
         /\ SqlEq(user.management_interest, Str(no_management)) ->
            ARRAY_LENGTH(IFNULL(job.leadership_levels, <<>>)) = 0
      [] /\ ~SqlNe(user.status, Str(experience_position))
         /\ SqlEq(user.management_interest, Str(management_only)) ->
            /\ ARRAY_LENGTH(IFNULL(job.leadership_levels, <<>>)) > 0
            /\ LevelMatches(user, job)
      [] /\ ~SqlNe(user.status, Str(experience_position))
         /\ SqlEq(user.management_interest, Str(management_and_individual)) ->
            \/ ARRAY_LENGTH(IFNULL(job.leadership_levels, <<>>)) = 0
            \/ LevelMatches(user, job)
      [] OTHER -> TRUE

\* CTE 2: the cross join of users and jobs, filtered
PotentialMatches(users, jobs) ==
    { [ user_id |-> user.user_id, status |-> user.status, job_id |-> job.job_id,
        job_title |-> job.job_title, job_url |-> job.job_url ]
      : <<user, job>> \in
          { uj \in UserPreferences(users) \X jobs :
              /\ Filter1(uj[1], uj[2])
              /\ Filter2(uj[1], uj[2])
              /\ Filter3(uj[1], uj[2])
              /\ Filter4(uj[1], uj[2]) } }

\* the rows of the ledger that the LEFT JOIN pairs with a potential match
JoinedHistory(pm, hist) ==
    { h \in BagToSet(hist) :
        /\ pm.user_id = h.user_id
        /\ SqlEq(Str(pm.job_id), CAST_STRING(h.job_id)) }

RECURSIVE SetMin(_)
SetMin(S) ==
    LET x == CHOOSE y \in S : TRUE
    IN  IF S = {x} THEN x ELSE Min2(x, SetMin(S \ {x}))

\* last_sent as it would be with MIN written for MAX
last_sent_Oldest(pm, hist) ==
    IF JoinedHistory(pm, hist) = {} THEN null
    ELSE Num(SetMin({ h.sent_timestamp : h \in JoinedHistory(pm, hist) }))

\* MAX(hist.sent_timestamp): NULL when the join found no row
last_sent(pm, hist) ==
    IF JoinedHistory(pm, hist) = {} THEN null
    ELSE Num(SetMax({ h.sent_timestamp : h \in JoinedHistory(pm, hist) }))

\* CTE 3: each potential match with the time of its latest notification
MatchesWithHistory(users, jobs, hist) ==
    { [ user_id |-> pm.user_id, job_id |-> pm.job_id, job_title |-> pm.job_title,
        job_url |-> pm.job_url, status |-> pm.status,
        last_sent |-> last_sent(pm, hist) ]
      : pm \in PotentialMatches(users, jobs) }

\* the WHERE as it would be with >= written for >
NotificationDue_AtLeast(status, lastSent, current_date) ==
    \/ lastSent = null
    \/ /\ lastSent # null
       /\ \/ /\ \/ SqlEq(status, Str(student_position))
                \/ SqlEq(status, Str(no_experience_position))
             /\ DATE_DIFF(current_date, DATE(lastSent.v)) >= 3
          \/ /\ SqlEq(status, Str(experience_position))
             /\ DATE_DIFF(current_date, DATE(lastSent.v)) >= 14

\* the WHERE as it would be with one cooldown for every status
NotificationDue_SameCooldown(status, lastSent, current_date) ==
    \/ lastSent = null
    \/ /\ lastSent # null
       /\ DATE_DIFF(current_date, DATE(lastSent.v)) > 3

\* the WHERE as it would be with whole days of elapsed time, counted from
\* the send to the midnight that began the current date, for calendar days
NotificationDue_Elapsed(status, lastSent, current_date) ==
    \/ lastSent = null
    \/ /\ lastSent # null
       /\ \/ /\ \/ SqlEq(status, Str(student_position))
                \/ SqlEq(status, Str(no_experience_position))
             /\ (current_date * TicksPerDay - lastSent.v) \div TicksPerDay > 3
          \/ /\ SqlEq(status, Str(experience_position))
             /\ (current_date * TicksPerDay - lastSent.v) \div TicksPerDay > 14

\* the WHERE as it would be if a pair once notified were never due again
NotificationDue_NeverAgain(status, lastSent, current_date) == lastSent = null

\* the WHERE of the final SELECT, current_date being CURRENT_DATE()
NotificationDue(status, lastSent, current_date) ==
    \/ lastSent = null
    \/ /\ lastSent # null
       /\ \/ /\ \/ SqlEq(status, Str(student_position))
                \/ SqlEq(status, Str(no_experience_position))
             /\ DATE_DIFF(current_date, DATE(lastSent.v)) > 3
          \/ /\ SqlEq(status, Str(experience_position))
             /\ DATE_DIFF(current_date, DATE(lastSent.v)) > 14

\* the final SELECT: the rows to notify
MASTER_MATCHING_QUERY(users, jobs, hist, current_date) ==
    { [ user_id |-> m.user_id, job_id |-> m.job_id, job_title |-> m.job_title,
        job_url |-> m.job_url, status |-> m.status ]
      : m \in { x \in MatchesWithHistory(users, jobs, hist) :
                  NotificationDue(x.status, x.last_sent, current_date) } }

---------------------------------------------------------------------------
(* The tables the passes run on.                                           *)

Preferences(status, minExp, maxExp, degree, interest, level, domains, locations) ==
    [ status |-> status, minExperience |-> minExp, maxExperience |-> maxExp,
      degree |-> degree, managementInterest |-> interest,
      managementLevel |-> level, domains |-> domains, locations |-> locations ]

StudentUser ==
    [ document_id |-> "student",
      data |-> [ state |-> Str(completed),
                 preferences |->
                   Preferences(Str(student_position), undefined, undefined, Str(BSc),
                               undefined, undefined, Arr(<<>>), Arr(<<tel_aviv>>)) ] ]

NoExperienceUser ==
    [ document_id |-> "junior",
      data |-> [ state |-> Str(completed),
                 preferences |->
                   Preferences(Str(no_experience_position), undefined, undefined,
                               undefined, undefined, undefined, Arr(<<software>>),
                               Arr(<<tel_aviv, berlin>>)) ] ]

ExperiencedUser ==
    [ document_id |-> "senior",
      data |-> [ state |-> Str(completed),
                 preferences |->
                   Preferences(Str(experience_position), Num(2), Num(5), undefined,
                               Str(no_management), undefined, Arr(<<>>),
                               Arr(<<remote>>)) ] ]

\* a profile that is not completed: CTE 1 leaves it out
DraftUser ==
    [ document_id |-> "draft",
      data |-> [ state |-> Str(<<"d", "r", "a", "f", "t">>),
                 preferences |->
                   Preferences(Str(experience_position), Num(0), Num(9), undefined,
                               undefined, undefined, Arr(<<>>), Arr(<<remote>>)) ] ]

StudentJob ==
    [ job_id |-> <<"1", "7">>, job_title |-> "Student Developer",
      job_url |-> "https://jobs.example/17", is_student_job |-> Bool(TRUE),
      required_degrees |-> Arr(<<BSc>>), experience_levels |-> Arr(<<0>>),
      locations |-> Arr(<<tel_aviv>>), domains |-> Arr(<<software>>),
      leadership_levels |-> null ]

EngineerJob ==
    [ job_id |-> <<"4", "2">>, job_title |-> "Backend Engineer",
      job_url |-> "https://jobs.example/42", is_student_job |-> Bool(FALSE),
      required_degrees |-> null, experience_levels |-> Arr(<<3, 4>>),
      locations |-> Arr(<<berlin>>), domains |-> Arr(<<software>>),
      leadership_levels |-> Arr(<<>>) ]

\* a leadership job: the fixture's users are all refused it by FILTER 4 or 1
LeadJob ==
    [ job_id |-> <<"9">>, job_title |-> "Team Lead",
      job_url |-> "https://jobs.example/9", is_student_job |-> Bool(FALSE),
      required_degrees |-> null, experience_levels |-> Arr(<<8>>),
      locations |-> Arr(<<remote>>), domains |-> null,
      leadership_levels |-> Arr(<<team_lead>>) ]

Jobs == {StudentJob, EngineerJob, LeadJob}
\* users of the passes that follow one another: one of each status
UsersSeq == {StudentUser, NoExperienceUser, ExperiencedUser, DraftUser}
\* users of the passes that overlap
UsersOverlap == {StudentUser, ExperiencedUser, DraftUser}

---------------------------------------------------------------------------
(* POST /run of index.js.                                                  *)

Slots == 1..MaxSlots

NoResponse == [status |-> 0]
NoError == [message |-> ""]
\* the errors the stores raise, each with the message that names its cause
QueryError == [message |-> "bigquery: query failed"]
WriteError == [message |-> "firestore: write failed"]
InsertError == [message |-> "bigquery: insert failed"]

\* res.status(500).send(`Error: ${error.message}`)
ErrorResponse(error) ==
    [status |-> 500, body |-> "Error: " \o error.message]
NoDate == [t |-> "unset"]

\* the document key as it would be with one document for each user
matchRef_PerUser(job) == <<job.user_id>>

\* the document key users/{user_id}/matchedJobs/{job_id}
matchRef(job) == <<job.user_id, job.job_id>>

\* set(data, {merge: true}): the fields given replace the stored ones,
\* the other stored fields stay
MergeSet(store, key, data) ==
    IF key \in DOMAIN store
    THEN [store EXCEPT ![key] =
            [f \in (DOMAIN store[key]) \cup (DOMAIN data) |->
                IF f \in DOMAIN data THEN data[f] ELSE store[key][f]]]
    ELSE [k \in (DOMAIN store) \cup {key} |->
            IF k = key THEN data ELSE store[k]]

\* the document a match write stores
MatchDoc(job, now) ==
    [status |-> "new", title |-> job.job_title, url |-> job.job_url,
     matchedTimestamp |-> now]

\* historyRows: one row per row of jobsToSync
historyRows(jobs, now) ==
    { [user_id |-> job.user_id, job_id |-> Str(job.job_id), sent_timestamp |-> now]
      : job \in jobs }

\* the insert as it would be if the load replaced the table
InsertRows_Overwrite(hist, rows) == SetToBag(rows)

\* table.insert(rows): the rows are appended to the ledger
InsertRows(hist, rows) == hist (+) SetToBag(rows)

Pending(r) ==
    \/ historyInsert[r] = "pending"
    \/ \E job \in DOMAIN firestoreWrites[r] : firestoreWrites[r][job] = "pending"

\* the clock moves on by one tick
Tick(lastDay) ==
    /\ clock < (lastDay + 1) * TicksPerDay - 1
    /\ clock' = clock + 1
    /\ UNCHANGED <<tables, match_history, matchedJobs, pc, jobsToSync, nowOf,
                   firestoreWrites, historyInsert, res, caught, engine>>

\* a request arrives and BigQuery evaluates the query (line 219): the
\* result is computed from the ledger and the date as they are now
RunQuery(r) ==
    /\ pc[r] \in {"idle", "done"}
    /\ ~Pending(r)
    /\ pc' = [pc EXCEPT ![r] = "queried"]
    /\ jobsToSync' = [jobsToSync EXCEPT ![r] =
            MASTER_MATCHING_QUERY(users_raw_latest, clean_jobs_view,
                                  match_history, DATE(clock))]
    /\ nowOf' = [nowOf EXCEPT ![r] = NoDate]
    /\ firestoreWrites' = [firestoreWrites EXCEPT ![r] = <<>>]
    /\ historyInsert' = [historyInsert EXCEPT ![r] = "none"]
    /\ res' = [res EXCEPT ![r] = NoResponse]
    /\ caught' = [caught EXCEPT ![r] = NoError]
    /\ UNCHANGED <<tables, match_history, matchedJobs, clock, engine>>

\* the failed query as it would be if the error were swallowed
QueryFail_Swallow(r) ==
    /\ pc[r] \in {"idle", "done"}
    /\ ~Pending(r)
    /\ pc' = [pc EXCEPT ![r] = "done"]
    /\ jobsToSync' = [jobsToSync EXCEPT ![r] = {}]
    /\ nowOf' = [nowOf EXCEPT ![r] = NoDate]
    /\ firestoreWrites' = [firestoreWrites EXCEPT ![r] = <<>>]
    /\ historyInsert' = [historyInsert EXCEPT ![r] = "none"]
    /\ caught' = [caught EXCEPT ![r] = QueryError]
    /\ res' = [res EXCEPT ![r] = [status |-> 200, body |-> "No new matches found."]]
    /\ UNCHANGED <<tables, match_history, matchedJobs, clock, engine>>

\* a request arrives and the query fails: the catch block answers (261-264)
QueryFail(r) ==
    /\ pc[r] \in {"idle", "done"}
    /\ ~Pending(r)
    /\ pc' = [pc EXCEPT ![r] = "done"]
    /\ jobsToSync' = [jobsToSync EXCEPT ![r] = {}]
    /\ nowOf' = [nowOf EXCEPT ![r] = NoDate]
    /\ firestoreWrites' = [firestoreWrites EXCEPT ![r] = <<>>]
    /\ historyInsert' = [historyInsert EXCEPT ![r] = "none"]
    /\ caught' = [caught EXCEPT ![r] = QueryError]
    /\ res' = [res EXCEPT ![r] = ErrorResponse(QueryError)]
    /\ UNCHANGED <<tables, match_history, matchedJobs, clock, engine>>

\* the handler goes on after the query (lines 221-255): no rows, and it
\* answers; else it starts one match write per row and the insert of the
\* history rows, all at once, and waits for them
Sync(r) ==
    /\ pc[r] = "queried"
    /\ IF jobsToSync[r] = {}
       THEN /\ pc' = [pc EXCEPT ![r] = "done"]
            /\ res' = [res EXCEPT ![r] =
                    [status |-> 200, body |-> "No new matches found."]]
            /\ UNCHANGED <<nowOf, firestoreWrites, historyInsert>>
       ELSE /\ pc' = [pc EXCEPT ![r] = "awaiting"]
            /\ nowOf' = [nowOf EXCEPT ![r] = Num(clock)]
            /\ firestoreWrites' = [firestoreWrites EXCEPT ![r] =
                    [job \in jobsToSync[r] |-> "pending"]]
            /\ historyInsert' = [historyInsert EXCEPT ![r] = "pending"]
            /\ UNCHANGED res
    /\ UNCHANGED <<tables, match_history, matchedJobs, clock, jobsToSync, caught,
                   engine>>

\* await Promise.all(...) (252-264) once the promise states are w and h:
\* the first rejection throws into the catch block, the last fulfilment
\* lets the handler answer 200; a handler that has answered stays as it is
Settle(r, w, h, error) ==
    IF pc[r] # "awaiting"
    THEN UNCHANGED <<pc, res, caught>>
    ELSE IF error # NoError
         THEN /\ pc' = [pc EXCEPT ![r] = "done"]
              /\ caught' = [caught EXCEPT ![r] = error]
              /\ res' = [res EXCEPT ![r] = ErrorResponse(error)]
         ELSE IF h = "fulfilled" /\ \A job \in DOMAIN w : w[job] = "fulfilled"
              THEN /\ pc' = [pc EXCEPT ![r] = "done"]
                   /\ res' = [res EXCEPT ![r] =
                           [status |-> 200, body |-> "Successfully synced",
                            count |-> Cardinality(jobsToSync[r])]]
                   /\ UNCHANGED caught
              ELSE UNCHANGED <<pc, res, caught>>

\* Firestore applies one match write
MatchWriteOk(r, job) ==
    /\ job \in DOMAIN firestoreWrites[r]
    /\ firestoreWrites[r][job] = "pending"
    /\ matchedJobs' = MergeSet(matchedJobs, matchRef(job), MatchDoc(job, nowOf[r].v))
    /\ firestoreWrites' = [firestoreWrites EXCEPT ![r][job] = "fulfilled"]
    /\ Settle(r, firestoreWrites'[r], historyInsert[r], NoError)
    /\ UNCHANGED <<tables, match_history, clock, jobsToSync, nowOf, historyInsert,
                   engine>>

\* Firestore refuses one match write
MatchWriteFail(r, job) ==
    /\ job \in DOMAIN firestoreWrites[r]
    /\ firestoreWrites[r][job] = "pending"
    /\ firestoreWrites' = [firestoreWrites EXCEPT ![r][job] = "rejected"]
    /\ Settle(r, firestoreWrites'[r], historyInsert[r], WriteError)
    /\ UNCHANGED <<tables, match_history, matchedJobs, clock, jobsToSync, nowOf,
                   historyInsert, engine>>

\* BigQuery appends the history rows
HistoryInsertOk(r) ==
    /\ historyInsert[r] = "pending"
    /\ match_history' = InsertRows(match_history, historyRows(jobsToSync[r], nowOf[r].v))
    /\ historyInsert' = [historyInsert EXCEPT ![r] = "fulfilled"]
    /\ Settle(r, firestoreWrites[r], "fulfilled", NoError)
    /\ UNCHANGED <<tables, matchedJobs, clock, jobsToSync, nowOf, firestoreWrites,
                   engine>>

\* BigQuery refuses the history rows
HistoryInsertFail(r) ==
    /\ historyInsert[r] = "pending"
    /\ historyInsert' = [historyInsert EXCEPT ![r] = "rejected"]
    /\ Settle(r, firestoreWrites[r], "rejected", InsertError)
    /\ UNCHANGED <<tables, match_history, matchedJobs, clock, jobsToSync, nowOf,
                   firestoreWrites, engine>>

\* no function of matchingLogic.js has been called
NoCall == [fn |-> "none"]
NotCalled == [threw |-> FALSE, pending |-> TRUE]

EngineIdle ==
    /\ call = NoCall
    /\ returned = NotCalled

InitHandler(users) ==
    /\ users_raw_latest = users
    /\ clean_jobs_view = Jobs
    /\ match_history = EmptyBag
    /\ matchedJobs = <<>>
    /\ clock = 0
    /\ pc = [r \in Slots |-> "idle"]
    /\ jobsToSync = [r \in Slots |-> {}]
    /\ nowOf = [r \in Slots |-> NoDate]
    /\ firestoreWrites = [r \in Slots |-> <<>>]
    /\ historyInsert = [r \in Slots |-> "none"]
    /\ res = [r \in Slots |-> NoResponse]
    /\ caught = [r \in Slots |-> NoError]

InitRun(users) ==
    /\ InitHandler(users)
    /\ EngineIdle

\* passes that follow one another, with queries and writes that may fail:
\* a new request waits until the writes of the last one have settled
Init == InitRun(UsersOverlap)

Next ==
    \/ Tick(MaxDayFail)
    \/ RunQuery(1)
    \/ QueryFail(1)
    \/ Sync(1)
    \/ \E job \in jobsToSync[1] : MatchWriteOk(1, job)
    \/ \E job \in jobsToSync[1] : MatchWriteFail(1, job)
    \/ HistoryInsertOk(1)
    \/ HistoryInsertFail(1)

Spec == Init /\ [][Next]_vars

\* passes that overlap: each slot serves one request
InitOverlap == InitRun(UsersOverlap)

NextOverlap ==
    \/ Tick(MaxDayOverlap)
    \/ \E r \in Slots : pc[r] = "idle" /\ RunQuery(r)
    \/ \E r \in Slots : Sync(r)
    \/ \E r \in Slots : \E job \in jobsToSync[r] : MatchWriteOk(r, job)
    \/ \E r \in Slots : \E job \in jobsToSync[r] : MatchWriteFail(r, job)
    \/ \E r \in Slots : HistoryInsertOk(r)
    \/ \E r \in Slots : HistoryInsertFail(r)

SpecOverlap == InitOverlap /\ [][NextOverlap]_vars

\* passes that follow one another and succeed: one slot, nothing fails
InitSeq == InitRun(UsersSeq)

NextSeq ==
    \/ Tick(MaxDay)
    \/ RunQuery(1)
    \/ Sync(1)
    \/ \E job \in jobsToSync[1] : MatchWriteOk(1, job)
    \/ HistoryInsertOk(1)

SpecSeq == InitSeq /\ [][NextSeq]_vars

\* passes that follow one another and succeed, for ever: time goes on, the
\* scheduler keeps posting /run, the handler goes on after the query, and
\* the stores carry out what they were asked
UsersLive == {StudentUser, ExperiencedUser, DraftUser}

InitLive == InitRun(UsersLive)

FairSeq ==
    /\ WF_vars(Tick(MaxDay))
    /\ WF_vars(RunQuery(1))
    /\ WF_vars(Sync(1))
    /\ WF_vars(\E job \in jobsToSync[1] : MatchWriteOk(1, job))
    /\ WF_vars(HistoryInsertOk(1))

SpecLive == InitLive /\ [][NextSeq]_vars /\ FairSeq

---------------------------------------------------------------------------
(* The throttle as a function of the ledger: the query is evaluated on a   *)
(* ledger, rows are added to the ledger, and the query is evaluated again  *)
(* at the same time.                                                       *)

\* rows of the ledger the throttle is first evaluated on, at most
MaxRows == 2
\* rows the ledger holds after rows were added, at most
MaxLedger == 4

\* days before now at which the drawn rows were sent
SentDaysAgo == {0, 3, 4, 14, 15}

CandidateRows(now) ==
    { [user_id |-> pm.user_id, job_id |-> Str(pm.job_id),
       sent_timestamp |-> now - d * TicksPerDay]
      : <<pm, d>> \in PotentialMatches(UsersSeq, Jobs) \X SentDaysAgo }

InitThrottle ==
    /\ users_raw_latest = UsersSeq
    /\ clean_jobs_view = Jobs
    /\ clock \in { MaxDay * TicksPerDay + k : k \in 0..(TicksPerDay - 1) }
    /\ match_history \in
         { SetToBag(S) : S \in { T \in SUBSET CandidateRows(clock) :
                                   Cardinality(T) <= MaxRows } }
    /\ matchedJobs = <<>>
    /\ pc = [r \in Slots |-> "idle"]
    /\ jobsToSync = [r \in Slots |-> {}]
    /\ nowOf = [r \in Slots |-> NoDate]
    /\ firestoreWrites = [r \in Slots |-> <<>>]
    /\ historyInsert = [r \in Slots |-> "none"]
    /\ res = [r \in Slots |-> NoResponse]
    /\ caught = [r \in Slots |-> NoError]
    /\ EngineIdle

\* rows sent no later than now are added to the ledger, some of them
\* copies of rows it holds
AppendExtra ==
    /\ pc[1] = "queried"
    /\ pc[2] = "idle"
    /\ \E row \in CandidateRows(clock) :
        /\ BagCardinality(match_history) < MaxLedger
        /\ match_history' = InsertRows(match_history, {row})
    /\ UNCHANGED <<tables, matchedJobs, clock, pc, jobsToSync, nowOf,
                   firestoreWrites, historyInsert, res, caught, engine>>

NextThrottle ==
    \/ pc[1] = "idle" /\ RunQuery(1)
    \/ AppendExtra
    \/ pc[1] = "queried" /\ pc[2] = "idle" /\ RunQuery(2)

SpecThrottle == InitThrottle /\ [][NextThrottle]_vars

---------------------------------------------------------------------------
(* matchingLogic.js: the in-process rules.  A call that throws gives the   *)
(* outcome TypeError; a call that returns v gives Return(v).               *)

Return(v) == [threw |-> FALSE, pending |-> FALSE, value |-> v]
TypeError == [threw |-> TRUE, pending |-> FALSE]

\* what JavaScript takes for true in a condition
Truthy(x) ==
    CASE x.t = "string" -> x.v # <<>>
      [] x.t = "number" -> x.v # 0
      [] x.t = "boolean" -> x.v
      [] x.t = "array" -> TRUE
      [] OTHER -> FALSE

\* the characters \s matches
Whitespace == {" ", "\t", "\n", "\r"}
UpperChars ==
    <<"A", "B", "C", "D", "E", "F", "G", "H", "I", "J", "K", "L", "M",
      "N", "O", "P", "Q", "R", "S", "T", "U", "V", "W", "X", "Y", "Z">>
LowerChars ==
    <<"a", "b", "c", "d", "e", "f", "g", "h", "i", "j", "k", "l", "m",
      "n", "o", "p", "q", "r", "s", "t", "u", "v", "w", "x", "y", "z">>
\* the characters \w matches; \b stands between one of them and none
WordChars == Range(UpperChars) \cup Range(LowerChars) \cup Range(DigitChars) \cup {"_"}

LowerOf ==
    [c \in Range(UpperChars) |->
        LowerChars[CHOOSE k \in 1..Len(UpperChars) : UpperChars[k] = c]]

toLowerCase(s) ==
    [i \in 1..Len(s) |-> IF s[i] \in DOMAIN LowerOf THEN LowerOf[s[i]] ELSE s[i]]

trim(s) == TrimRight(TrimLeft(s, Whitespace), Whitespace)

\* .replace(/\s+/g, '_'): every run of whitespace becomes one underscore
RECURSIVE replaceWhitespace(_)
replaceWhitespace(s) ==
    IF s = <<>> THEN <<>>
    ELSE IF s[1] \in Whitespace
         THEN <<"_">> \o replaceWhitespace(TrimLeft(s, Whitespace))
         ELSE <<s[1]>> \o replaceWhitespace(Tail(s))

\* .split(sep) for a separator of one character
RECURSIVE split(_, _)
split(s, sep) ==
    IF \A i \in 1..Len(s) : s[i] # sep THEN <<s>>
    ELSE LET i == CHOOSE k \in 1..Len(s) :
                    s[k] = sep /\ \A m \in 1..(k - 1) : s[m] # sep
         IN  <<SubSeq(s, 1, i - 1)>> \o split(SubSeq(s, i + 1, Len(s)), sep)

\* String.prototype.includes
includes(s, sub) ==
    \E i \in 1..(Len(s) - Len(sub) + 1) : SubSeq(s, i, i + Len(sub) - 1) = sub

\* constants.js: Object.values(allJobTitles).flat()
flattenedJobTitles ==
    << [ id |-> <<"s", "o", "f", "t", "w", "a", "r", "e">>,
         title |-> <<"S", "o", "f", "t", "w", "a", "r", "e">> ],
       [ id |-> <<"h", "a", "r", "d", "w", "a", "r", "e">>,
         title |-> <<"H", "a", "r", "d", "w", "a", "r", "e">> ],
       [ id |-> <<"f", "i", "r", "m", "w", "a", "r", "e">>,
         title |-> <<"F", "i", "r", "m", "w", "a", "r", "e">> ],
       [ id |-> <<"d", "e", "v", "o", "p", "s">>,
         title |-> <<"D", "e", "v", "O", "p", "s">> ],
       [ id |-> <<"p", "r", "o", "d", "u", "c", "t", "i", "o", "n", "_", "e", "n", "g", "i", "n", "e", "e", "r", "i", "n", "g">>,
         title |-> <<"P", "r", "o", "d", "u", "c", "t", "i", "o", "n", " ", "E", "n", "g", "i", "n", "e", "e", "r", "i", "n", "g">> ],
       [ id |-> <<"s", "r", "e">>,
         title |-> <<"S", "R", "E">> ],
       [ id |-> <<"q", "a">>,
         title |-> <<"Q", "A">> ],
       [ id |-> <<"a", "u", "t", "o", "m", "a", "t", "i", "o", "n">>,
         title |-> <<"A", "u", "t", "o", "m", "a", "t", "i", "o", "n">> ],
       [ id |-> <<"s", "y", "s", "t", "e", "m", "s">>,
         title |-> <<"S", "y", "s", "t", "e", "m", "s">> ],
       [ id |-> <<"c", "y", "b", "e", "r", "s", "e", "c", "u", "r", "i", "t", "y">>,
         title |-> <<"C", "y", "b", "e", "r", "s", "e", "c", "u", "r", "i", "t", "y">> ],
       [ id |-> <<"m", "e", "c", "h", "a", "n", "i", "c", "a", "l">>,
         title |-> <<"M", "e", "c", "h", "a", "n", "i", "c", "a", "l">> ],
       [ id |-> <<"s", "e", "c", "u", "r", "i", "t", "y">>,
         title |-> <<"S", "e", "c", "u", "r", "i", "t", "y">> ],
       [ id |-> <<"r", "e", "s", "e", "a", "r", "c", "h">>,
         title |-> <<"R", "e", "s", "e", "a", "r", "c", "h">> ],
       [ id |-> <<"d", "a", "t", "a", "_", "e", "n", "g", "i", "n", "e", "e", "r", "i", "n", "g">>,
         title |-> <<"D", "a", "t", "a", " ", "E", "n", "g", "i", "n", "e", "e", "r", "i", "n", "g">> ],
       [ id |-> <<"d", "a", "t", "a", "_", "s", "c", "i", "e", "n", "c", "e">>,
         title |-> <<"D", "a", "t", "a", " ", "S", "c", "i", "e", "n", "c", "e">> ],
       [ id |-> <<"d", "a", "t", "a", "_", "a", "n", "a", "l", "y", "t", "i", "c", "s", "_", "b", "i">>,
         title |-> <<"D", "a", "t", "a", " ", "A", "n", "a", "l", "y", "t", "i", "c", "s", " ", "/", " ", "B", "I">> ],
       [ id |-> <<"m", "a", "c", "h", "i", "n", "e", "_", "l", "e", "a", "r", "n", "i", "n", "g", "_", "a", "i">>,
         title |-> <<"M", "a", "c", "h", "i", "n", "e", " ", "L", "e", "a", "r", "n", "i", "n", "g", " ", "/", " ", "A", "I">> ],
       [ id |-> <<"p", "r", "o", "d", "u", "c", "t", "_", "m", "a", "n", "a", "g", "e", "m", "e", "n", "t">>,
         title |-> <<"P", "r", "o", "d", "u", "c", "t", " ", "M", "a", "n", "a", "g", "e", "m", "e", "n", "t">> ],
       [ id |-> <<"p", "r", "o", "j", "e", "c", "t", "_", "m", "a", "n", "a", "g", "e", "m", "e", "n", "t">>,
         title |-> <<"P", "r", "o", "j", "e", "c", "t", " ", "M", "a", "n", "a", "g", "e", "m", "e", "n", "t">> ],
       [ id |-> <<"p", "r", "o", "g", "r", "a", "m", "_", "m", "a", "n", "a", "g", "e", "m", "e", "n", "t">>,
         title |-> <<"P", "r", "o", "g", "r", "a", "m", " ", "M", "a", "n", "a", "g", "e", "m", "e", "n", "t">> ],
       [ id |-> <<"b", "u", "s", "i", "n", "e", "s", "s", "_", "a", "n", "a", "l", "y", "s", "i", "s">>,
         title |-> <<"B", "u", "s", "i", "n", "e", "s", "s", " ", "A", "n", "a", "l", "y", "s", "i", "s">> ],
       [ id |-> <<"b", "u", "s", "i", "n", "e", "s", "s", "_", "d", "e", "v", "e", "l", "o", "p", "m", "e", "n", "t">>,
         title |-> <<"B", "u", "s", "i", "n", "e", "s", "s", " ", "D", "e", "v", "e", "l", "o", "p", "m", "e", "n", "t">> ],
       [ id |-> <<"o", "p", "e", "r", "a", "t", "i", "o", "n", "s">>,
         title |-> <<"O", "p", "e", "r", "a", "t", "i", "o", "n", "s">> ],
       [ id |-> <<"c", "u", "s", "t", "o", "m", "e", "r", "_", "s", "u", "c", "c", "e", "s", "s", "_", "s", "u", "p", "p", "o", "r", "t">>,
         title |-> <<"C", "u", "s", "t", "o", "m", "e", "r", " ", "S", "u", "c", "c", "e", "s", "s", " ", "/", " ", "S", "u", "p", "p", "o", "r", "t">> ],
       [ id |-> <<"s", "a", "l", "e", "s">>,
         title |-> <<"S", "a", "l", "e", "s">> ],
       [ id |-> <<"m", "a", "r", "k", "e", "t", "i", "n", "g">>,
         title |-> <<"M", "a", "r", "k", "e", "t", "i", "n", "g">> ],
       [ id |-> <<"f", "i", "n", "a", "n", "c", "e">>,
         title |-> <<"F", "i", "n", "a", "n", "c", "e">> ],
       [ id |-> <<"l", "e", "g", "a", "l">>,
         title |-> <<"L", "e", "g", "a", "l">> ],
       [ id |-> <<"h", "r", "_", "p", "e", "o", "p", "l", "e">>,
         title |-> <<"H", "R", " ", "/", " ", "P", "e", "o", "p", "l", "e">> ],
       [ id |-> <<"i", "t", "_", "s", "y", "s", "a", "d", "m", "i", "n">>,
         title |-> <<"I", "T", " ", "/", " ", "S", "y", "s", "A", "d", "m", "i", "n">> ],
       [ id |-> <<"p", "r", "o", "c", "u", "r", "e", "m", "e", "n", "t", "_", "s", "u", "p", "p", "l", "y", "_", "c", "h", "a", "i", "n">>,
         title |-> <<"P", "r", "o", "c", "u", "r", "e", "m", "e", "n", "t", " ", "/", " ", "S", "u", "p", "p", "l", "y", " ", "C", "h", "a", "i", "n">> ],
       [ id |-> <<"p", "r", "o", "d", "u", "c", "t", "_", "d", "e", "s", "i", "g", "n">>,
         title |-> <<"P", "r", "o", "d", "u", "c", "t", " ", "D", "e", "s", "i", "g", "n">> ],
       [ id |-> <<"u", "x", "_", "u", "i", "_", "d", "e", "s", "i", "g", "n">>,
         title |-> <<"U", "X", "/", "U", "I", " ", "D", "e", "s", "i", "g", "n">> ],
       [ id |-> <<"v", "i", "s", "u", "a", "l", "_", "c", "r", "e", "a", "t", "i", "v", "e", "_", "d", "e", "s", "i", "g", "n">>,
         title |-> <<"V", "i", "s", "u", "a", "l", " ", "/", " ", "C", "r", "e", "a", "t", "i", "v", "e", " ", "D", "e", "s", "i", "g", "n">> ] >>

\* job.title.toLowerCase() of every entry of the vocabulary
lowerTitles ==
    [k \in 1..Len(flattenedJobTitles) |-> toLowerCase(flattenedJobTitles[k].title)]

\* flattenedJobTitles.find(job => job.title.toLowerCase() === scope.toLowerCase())
foundJob(scope) ==
    LET hits == {k \in 1..Len(flattenedJobTitles) : lowerTitles[k] = toLowerCase(scope)}
    IN  IF hits = {} THEN undefined ELSE flattenedJobTitles[SetMin(hits)]

\* the ids of the scopes the vocabulary knows, in the order of the scopes
RECURSIVE pushFound(_)
pushFound(scopes) ==
    IF scopes = <<>> THEN <<>>
    ELSE (IF foundJob(scopes[1]) # undefined
          THEN <<foundJob(scopes[1]).id>> ELSE <<>>) \o pushFound(Tail(scopes))

\* the first index from i on whose character is not in cs
RECURSIVE SkipWhile(_, _, _)
SkipWhile(s, i, cs) ==
    IF i <= Len(s) /\ s[i] \in cs THEN SkipWhile(s, i + 1, cs) ELSE i

\* /(\d+)\s*-\s*(\d+)/ matches with its first character at i
rangeMatchAt(s, i) ==
    LET j == SkipWhile(s, i, Range(DigitChars))
        k == SkipWhile(s, j, Whitespace)
        l == SkipWhile(s, k + 1, Whitespace)
    IN  /\ j > i
        /\ k <= Len(s)
        /\ s[k] = "-"
        /\ l <= Len(s)
        /\ IsDigit(s[l])

\* rangeMatch as it would be with /(\d+)-(\d+)/, no space around the dash
rangeMatch_NoSpaces(s) ==
    LET starts == {i \in 1..Len(s) :
                     LET j == SkipWhile(s, i, Range(DigitChars))
                     IN  /\ j > i
                         /\ j < Len(s)
                         /\ s[j] = "-"
                         /\ IsDigit(s[j + 1])}
    IN  IF starts = {} THEN null
        ELSE LET i == SetMin(starts)
                 j == SkipWhile(s, i, Range(DigitChars))
                 m == SkipWhile(s, j + 1, Range(DigitChars))
             IN  Arr(<<SubSeq(s, i, j - 1), SubSeq(s, j + 1, m - 1)>>)

\* expStr.match(/(\d+)\s*-\s*(\d+)/): the two groups of the leftmost match
rangeMatch(s) ==
    LET starts == {i \in 1..Len(s) : rangeMatchAt(s, i)}
    IN  IF starts = {} THEN null
        ELSE LET i == SetMin(starts)
                 j == SkipWhile(s, i, Range(DigitChars))
                 k == SkipWhile(s, j, Whitespace)
                 l == SkipWhile(s, k + 1, Whitespace)
                 m == SkipWhile(s, l, Range(DigitChars))
             IN  Arr(<<SubSeq(s, i, j - 1), SubSeq(s, l, m - 1)>>)

\* expStr.match(/(\d+)\+/): the group of the leftmost match
singlePlusMatch(s) ==
    LET starts == {i \in 1..Len(s) :
                     LET j == SkipWhile(s, i, Range(DigitChars))
                     IN  j > i /\ j <= Len(s) /\ s[j] = "+"}
    IN  IF starts = {} THEN null
        ELSE LET i == SetMin(starts)
             IN  Arr(<<SubSeq(s, i, SkipWhile(s, i, Range(DigitChars)) - 1)>>)

\* expStr.match(/\b(\d)\b/): the group of the leftmost match
singleDigitMatch(s) ==
    LET starts == {i \in 1..Len(s) :
                     /\ IsDigit(s[i])
                     /\ (i = 1 \/ s[i - 1] \notin WordChars)
                     /\ (i = Len(s) \/ s[i + 1] \notin WordChars)}
    IN  IF starts = {} THEN null ELSE Arr(<< <<s[SetMin(starts)]>> >>)

\* parseInt(text, 10) of a text of digits
parseInt(s) == ParseDigits(s)

\* a row of the jobs table as the in-process rules read it
RawJob(locations, job_scope, experience_level, leadership_level) ==
    [ source_url |-> Str(<<"u">>), title |-> Str(<<"t">>), url |-> Str(<<"u">>),
      locations |-> locations, job_scope |-> job_scope,
      experience_level |-> experience_level,
      leadership_level |-> leadership_level ]

normalizeJob(jobFromBigQuery) ==
    LET expStr == jobFromBigQuery.experience_level
        given == Truthy(expStr)
        range == IF given THEN rangeMatch(expStr.v) ELSE null
        plus == IF given THEN singlePlusMatch(expStr.v) ELSE null
        digit == IF given THEN singleDigitMatch(expStr.v) ELSE null
    IN  [ id |-> jobFromBigQuery.source_url,
          title |-> jobFromBigQuery.title,
          url |-> jobFromBigQuery.url,
          locations |->
            IF Truthy(jobFromBigQuery.locations)
            THEN LET parts == split(jobFromBigQuery.locations.v, ",")
                 IN  [i \in 1..Len(parts) |->
                        replaceWhitespace(toLowerCase(trim(parts[i])))]
            ELSE <<>>,
          domains |->
            IF Truthy(jobFromBigQuery.job_scope)
            THEN LET parts == split(jobFromBigQuery.job_scope.v, ",")
                 IN  pushFound([i \in 1..Len(parts) |-> trim(parts[i])])
            ELSE <<>>,
          minExp |->
            CASE range # null -> parseInt(range.v[1])
              [] range = null /\ plus # null -> parseInt(plus.v[1])
              [] range = null /\ plus = null /\ digit # null -> parseInt(digit.v[1])
              [] OTHER -> 0,
          maxExp |->
            CASE range # null -> parseInt(range.v[2])
              [] range = null /\ plus = null /\ digit # null -> parseInt(digit.v[1])
              [] OTHER -> 99,
          isStudentJob |->
            /\ given
            /\ (includes(expStr.v, <<"B", ".", "S", "c">>)
                \/ includes(expStr.v, <<"M", ".", "S", "c">>)),
          leadershipLevel |->
            IF Truthy(jobFromBigQuery.leadership_level)
            THEN Str(replaceWhitespace(toLowerCase(trim(
                        jobFromBigQuery.leadership_level.v))))
            ELSE null ]

\* the number a relational comparison turns its operand into; NaN for none
NaN == [t |-> "NaN"]
ToNumber(x) ==
    CASE x.t = "number" -> x
      [] x = null -> Num(0)
      [] x.t = "string" /\ \A i \in 1..Len(x.v) : IsDigit(x.v[i]) -> Num(ParseDigits(x.v))
      [] OTHER -> NaN

\* a <= n and a >= n of JavaScript: false when a side is NaN
LessEq(a, n) == ToNumber(a) # NaN /\ ToNumber(a).v <= n
GreaterEq(a, n) == ToNumber(a) # NaN /\ ToNumber(a).v >= n

\* matchesExperience as it would be if a student's bounds counted as well
matchesExperience_StudentOverlap(userPrefs, normalizedJob) ==
    /\ userPrefs.status = Str(student_position) => normalizedJob.isStudentJob
    /\ LessEq(userPrefs.minExperience, normalizedJob.maxExp)
    /\ GreaterEq(userPrefs.maxExperience, normalizedJob.minExp)

matchesExperience(userPrefs, normalizedJob) ==
    IF userPrefs.status = Str(student_position)
    THEN normalizedJob.isStudentJob
    ELSE /\ LessEq(userPrefs.minExperience, normalizedJob.maxExp)
         /\ GreaterEq(userPrefs.maxExperience, normalizedJob.minExp)

\* matchesDomains as it would be without the rule for a job that lists none
matchesDomains_JobMustList(userDomains, jobDomains) ==
    IF ~Truthy(userDomains) \/ Len(userDomains.v) = 0 THEN TRUE
    ELSE IF ~Truthy(jobDomains) THEN FALSE
    ELSE \E i \in 1..Len(userDomains.v) : userDomains.v[i] \in Range(jobDomains.v)

matchesDomains(userDomains, jobDomains) ==
    IF ~Truthy(userDomains) \/ Len(userDomains.v) = 0 THEN TRUE
    ELSE IF ~Truthy(jobDomains) \/ Len(jobDomains.v) = 0 THEN TRUE
    ELSE \E i \in 1..Len(userDomains.v) : userDomains.v[i] \in Range(jobDomains.v)

\* matchesLocation as it would be with remote a location like any other
matchesLocation_RemoteOrdinary(userLocations, jobLocations) ==
    IF ~Truthy(userLocations) \/ Len(userLocations.v) = 0 THEN TRUE
    ELSE IF ~Truthy(jobLocations) \/ Len(jobLocations.v) = 0 THEN TRUE
    ELSE \E i \in 1..Len(userLocations.v) : userLocations.v[i] \in Range(jobLocations.v)

matchesLocation(userLocations, jobLocations) ==
    IF ~Truthy(userLocations) \/ Len(userLocations.v) = 0 THEN TRUE
    ELSE IF ~Truthy(jobLocations) \/ Len(jobLocations.v) = 0 THEN TRUE
    ELSE IF remote \in Range(userLocations.v) \/ remote \in Range(jobLocations.v)
         THEN TRUE
    ELSE \E i \in 1..Len(userLocations.v) : userLocations.v[i] \in Range(jobLocations.v)

\* userPrefs.managementLevel.includes(level): throws when there is no array
levelIncludes(managementLevel, level) ==
    IF managementLevel.t = "array"
    THEN Return(level.v \in Range(managementLevel.v))
    ELSE TypeError

matchesLeadership(userPrefs, normalizedJob) ==
    LET interest == userPrefs.managementInterest
    IN  CASE ~Truthy(interest) -> Return(~Truthy(normalizedJob.leadershipLevel))
          [] interest = Str(no_management) ->
                Return(~Truthy(normalizedJob.leadershipLevel))
          [] interest = Str(management_only) ->
                IF ~Truthy(normalizedJob.leadershipLevel) THEN Return(FALSE)
                ELSE levelIncludes(userPrefs.managementLevel,
                                   normalizedJob.leadershipLevel)
          [] interest = Str(management_and_individual) ->
                IF ~Truthy(normalizedJob.leadershipLevel) THEN Return(TRUE)
                ELSE levelIncludes(userPrefs.managementLevel,
                                   normalizedJob.leadershipLevel)
          [] OTHER -> Return(TRUE)

\* user.domains.join(', ') and user.locations.join(', ') of the log line
\* throw when the field is no array
joinThrows(user) == user.domains.t # "array" \/ user.locations.t # "array"

isMatch(userPreferences, jobFromBigQuery) ==
    LET job == normalizeJob(jobFromBigQuery)
        user == userPreferences
    IN  IF joinThrows(user) THEN TypeError
        ELSE IF ~matchesDomains(user.domains, Arr(job.domains)) THEN Return(FALSE)
        ELSE IF ~matchesExperience(user, job) THEN Return(FALSE)
        ELSE IF ~matchesLocation(user.locations, Arr(job.locations)) THEN Return(FALSE)
        ELSE IF matchesLeadership(user, job).threw THEN TypeError
        ELSE IF ~matchesLeadership(user, job).value THEN Return(FALSE)
        ELSE Return(TRUE)

---------------------------------------------------------------------------
(* The in-process rules applied to one call: the arguments are drawn, the  *)
(* function is called once, and what it gave is kept.                      *)

\* longest array of ids a criterion is called with directly
MaxIds == 2

Absent == {undefined, null}

\* the arrays of at most MaxIds ids out of S
Arrays(S) == {Arr(a) : a \in UNION {[1..n -> S] : n \in 0..MaxIds}}

text_TelAvivRemote ==
    <<"T", "e", "l", " ", "A", "v", "i", "v", ",", " ", "R", "e", "m", "o", "t", "e">>
text_Berlin == <<"B", "e", "r", "l", "i", "n">>
text_Software == <<"S", "o", "f", "t", "w", "a", "r", "e">>
text_HardwareQA == <<"H", "a", "r", "d", "w", "a", "r", "e", " ", ",", "q", "a">>
text_DataEngineering ==
    <<"D", "a", "t", "a", " ", "E", "n", "g", "i", "n", "e", "e", "r", "i", "n", "g">>
text_3to4 == <<"3", "-", "4", " ", "y", "e", "a", "r", "s">>
text_6plus == <<"6", "+">>
text_0 == <<"0">>
text_BScStudent == <<"B", ".", "S", "c", " ", "s", "t", "u", "d", "e", "n", "t">>
text_TeamLead == <<"T", "e", "a", "m", " ", "L", "e", "a", "d">>

\* the users isMatch is called with
EngineUsers ==
    { Preferences(status, e[1], e[2], Str(BSc), interest, level, domains, locations) :
        status \in {Str(student_position), Str(no_experience_position),
                    Str(experience_position)},
        e \in {<<undefined, undefined>>, <<Num(2), Num(5)>>, <<Num(5), Num(2)>>},
        interest \in {undefined, Str(none), Str(no_management), Str(management_only),
                      Str(management_and_individual)},
        level \in {undefined, Arr(<<team_lead>>)},
        domains \in {undefined, Arr(<<>>), Arr(<<software>>)},
        locations \in {undefined, Arr(<<>>), Arr(<<tel_aviv>>), Arr(<<remote>>)} }

\* the raw jobs isMatch is called with
EngineJobs ==
    { RawJob(locations, job_scope, experience_level, leadership_level) :
        locations \in {null, Str(text_TelAvivRemote), Str(text_Berlin)},
        job_scope \in {null, Str(text_Software), Str(text_HardwareQA)},
        experience_level \in {null, Str(text_3to4), Str(text_6plus), Str(text_0),
                              Str(text_BScStudent)},
        leadership_level \in {null, Str(text_TeamLead)} }

IsMatchCalls ==
    { [fn |-> "isMatch", userPreferences |-> u, jobFromBigQuery |-> j] :
        u \in EngineUsers, j \in EngineJobs }

MatchesDomainsCalls ==
    { [fn |-> "matchesDomains", userDomains |-> u, jobDomains |-> j] :
        u \in Absent \cup Arrays({software, hardware}),
        j \in Absent \cup Arrays({software, hardware}) }

MatchesLocationCalls ==
    { [fn |-> "matchesLocation", userLocations |-> u, jobLocations |-> j] :
        u \in Absent \cup Arrays({remote, tel_aviv, berlin}),
        j \in Absent \cup Arrays({remote, tel_aviv, berlin}) }

\* a normalized job as the criteria read it
NormalizedJob(locations, domains, minExp, maxExp, isStudentJob, leadershipLevel) ==
    [ id |-> Str(<<"u">>), title |-> Str(<<"t">>), url |-> Str(<<"u">>),
      locations |-> locations, domains |-> domains, minExp |-> minExp,
      maxExp |-> maxExp, isStudentJob |-> isStudentJob,
      leadershipLevel |-> leadershipLevel ]

MatchesLeadershipCalls ==
    { [fn |-> "matchesLeadership",
       userPrefs |-> Preferences(status, Num(2), Num(5), Str(BSc), interest, level,
                                 Arr(<<>>), Arr(<<>>)),
       normalizedJob |-> NormalizedJob(<<>>, <<>>, 0, 99, FALSE, leadershipLevel)] :
        status \in {Str(student_position), Str(no_experience_position),
                    Str(experience_position)},
        interest \in {undefined, null, Str(none), Str(no_management),
                      Str(management_only), Str(management_and_individual)},
        level \in {undefined, null, Arr(<<>>), Arr(<<team_lead>>),
                   Arr(<<vp, team_lead>>)},
        leadershipLevel \in {null, Str(team_lead), Str(vp)} }

\* the ranges [minExp, maxExp] of the jobs matchesExperience is called with
ExpRanges == {<<0, 3>>, <<4, 6>>, <<6, 10>>, <<3, 4>>, <<0, 99>>}

MatchesExperienceCalls ==
    { [fn |-> "matchesExperience",
       userPrefs |-> Preferences(status, minExperience, maxExperience, degree,
                                 undefined, undefined, Arr(<<>>), Arr(<<>>)),
       normalizedJob |-> NormalizedJob(<<>>, <<>>, e[1], e[2], isStudentJob, null)] :
        status \in {Str(student_position), Str(no_experience_position),
                    Str(experience_position)},
        minExperience \in {undefined, null, Num(0), Num(2), Num(5)},
        maxExperience \in {undefined, null, Num(2), Num(5)},
        degree \in {undefined, Str(BSc)},
        e \in ExpRanges,
        isStudentJob \in BOOLEAN }

NormalizeJobCalls ==
    { [fn |-> "normalizeJob",
       jobFromBigQuery |-> RawJob(locations, job_scope, experience_level,
                                  leadership_level)] :
        locations \in {null, Str(text_TelAvivRemote), Str(text_Berlin)},
        job_scope \in {null, Str(text_Software), Str(text_HardwareQA),
                       Str(text_DataEngineering)},
        experience_level \in {null, Str(text_3to4)},
        leadership_level \in {null, Str(text_TeamLead)} }

\* greatest number of years an experience text names
MaxYears == 11

\* an experience text is put together from a degree marker, a number that
\* stands alone, a number with a plus and a range, each of them there or not
NoPart == [kind |-> "none"]
NumberParts ==
    {NoPart} \cup {[kind |-> "number", n |-> n] : n \in {0, 4, MaxYears - 1}}
PlusParts == {NoPart} \cup {[kind |-> "plus", n |-> n] : n \in {2, MaxYears}}
RangeParts ==
    {NoPart} \cup
    { [kind |-> "range", low |-> a, high |-> b, dash |-> d] :
        a \in {0, 3, MaxYears}, b \in {0, 3, MaxYears},
        d \in {<<"-">>, <<" ", "-", " ">>} }
DegreeParts == {<<>>, <<"B", ".", "S", "c", " ">>, <<"M", ".", "S", "c", " ">>}

PartText(p) ==
    CASE p.kind = "number" -> Digits(p.n)
      [] p.kind = "plus" -> Digits(p.n) \o <<"+">>
      [] p.kind = "range" -> Digits(p.low) \o p.dash \o Digits(p.high)
      [] OTHER -> <<>>

RECURSIVE JoinedOr(_)
JoinedOr(texts) ==
    IF texts = <<>> THEN <<>>
    ELSE IF Len(texts) = 1 THEN texts[1]
    ELSE texts[1] \o <<" ", "o", "r", " ">> \o JoinedOr(Tail(texts))

ExperienceCases ==
    { [degree |-> d, number |-> n, plus |-> q, range |-> r] :
        d \in DegreeParts, n \in NumberParts, q \in PlusParts, r \in RangeParts }

\* the text of a case: the marker, then the parts that are there, the
\* range last
ExperienceText(c) ==
    c.degree \o JoinedOr(SelectSeq(<<PartText(c.number), PartText(c.plus),
                                     PartText(c.range)>>,
                                   LAMBDA t : t # <<>>))

ParseExperienceCalls ==
    { [fn |-> "normalizeJob",
       jobFromBigQuery |-> RawJob(null, null, Str(ExperienceText(c)), null)] :
        c \in ExperienceCases }

CallIsMatch ==
    /\ call.fn = "isMatch"
    /\ returned = NotCalled
    /\ returned' = isMatch(call.userPreferences, call.jobFromBigQuery)
    /\ UNCHANGED <<tables, handler, call>>

CallMatchesDomains ==
    /\ call.fn = "matchesDomains"
    /\ returned = NotCalled
    /\ returned' = Return(matchesDomains(call.userDomains, call.jobDomains))
    /\ UNCHANGED <<tables, handler, call>>

CallMatchesLocation ==
    /\ call.fn = "matchesLocation"
    /\ returned = NotCalled
    /\ returned' = Return(matchesLocation(call.userLocations, call.jobLocations))
    /\ UNCHANGED <<tables, handler, call>>

CallMatchesLeadership ==
    /\ call.fn = "matchesLeadership"
    /\ returned = NotCalled
    /\ returned' = matchesLeadership(call.userPrefs, call.normalizedJob)
    /\ UNCHANGED <<tables, handler, call>>

CallMatchesExperience ==
    /\ call.fn = "matchesExperience"
    /\ returned = NotCalled
    /\ returned' = Return(matchesExperience(call.userPrefs, call.normalizedJob))
    /\ UNCHANGED <<tables, handler, call>>

CallNormalizeJob ==
    /\ call.fn = "normalizeJob"
    /\ returned = NotCalled
    /\ returned' = Return(normalizeJob(call.jobFromBigQuery))
    /\ UNCHANGED <<tables, handler, call>>

InitEngine ==
    /\ InitHandler(UsersSeq)
    /\ call \in IsMatchCalls \cup MatchesDomainsCalls \cup MatchesLocationCalls
                \cup MatchesLeadershipCalls \cup MatchesExperienceCalls
                \cup NormalizeJobCalls \cup ParseExperienceCalls
    /\ returned = NotCalled

NextEngine ==
    \/ CallIsMatch
    \/ CallMatchesDomains
    \/ CallMatchesLocation
    \/ CallMatchesLeadership
    \/ CallMatchesExperience
    \/ CallNormalizeJob

SpecEngine == InitEngine /\ [][NextEngine]_vars

\* the row of users_raw_latest that holds a user's preferences
UserDoc(userPreferences) ==
    [ document_id |-> "u",
      data |-> [ state |-> Str(completed), preferences |-> userPreferences ] ]

\* the row of clean_jobs_view for a raw job: the normalized fields, the
\* experience range as the levels it holds, the degree every user here has
ViewRow(jobFromBigQuery) ==
    LET job == normalizeJob(jobFromBigQuery)
    IN  [ job_id |-> <<"1">>, job_title |-> "t", job_url |-> "u",
          is_student_job |-> Bool(job.isStudentJob),
          required_degrees |-> Arr(<<BSc>>),
          experience_levels |->
            Arr([i \in 1..(job.maxExp - job.minExp + 1) |-> job.minExp + i - 1]),
          locations |-> Arr(job.locations),
          domains |-> Arr(job.domains),
          leadership_levels |->
            IF Truthy(job.leadershipLevel)
            THEN Arr(<<job.leadershipLevel.v>>) ELSE Arr(<<>>) ]

---------------------------------------------------------------------------
(* The bulk query on one user and one job: the two rows are drawn and the  *)
(* query is run once on them.                                              *)

\* the users the query is run on
BulkUsers ==
    { Preferences(status, Num(2), Num(5), Str(BSc), interest, Arr(<<team_lead>>),
                  domains, locations) :
        status \in {Str(student_position), Str(no_experience_position),
                    Str(experience_position)},
        interest \in {undefined, Str(management_only)},
        domains \in {undefined, Arr(<<>>), Arr(<<software>>), Arr(<<hardware>>)},
        locations \in {undefined, Arr(<<>>), Arr(<<tel_aviv>>), Arr(<<remote>>)} }

\* the rows of clean_jobs_view the query is run on
BulkJobs ==
    { [ job_id |-> <<"1">>, job_title |-> "t", job_url |-> "u",
        is_student_job |-> Bool(student), required_degrees |-> Arr(<<BSc>>),
        experience_levels |-> levels, locations |-> locations,
        domains |-> domains, leadership_levels |-> leadership ] :
        student \in BOOLEAN,
        levels \in {Arr(<<0>>), Arr(<<3, 4>>)},
        locations \in {null, Arr(<<>>), Arr(<<tel_aviv>>), Arr(<<remote>>)},
        domains \in {null, Arr(<<>>), Arr(<<software>>)},
        leadership \in {null, Arr(<<team_lead>>)} }

InitBulk ==
    /\ users_raw_latest \in {{UserDoc(u)} : u \in BulkUsers}
    /\ clean_jobs_view \in {{j} : j \in BulkJobs}
    /\ match_history = EmptyBag
    /\ matchedJobs = <<>>
    /\ clock = 0
    /\ pc = [r \in Slots |-> "idle"]
    /\ jobsToSync = [r \in Slots |-> {}]
    /\ nowOf = [r \in Slots |-> NoDate]
    /\ firestoreWrites = [r \in Slots |-> <<>>]
    /\ historyInsert = [r \in Slots |-> "none"]
    /\ res = [r \in Slots |-> NoResponse]
    /\ caught = [r \in Slots |-> NoError]
    /\ EngineIdle

NextBulk == pc[1] = "idle" /\ RunQuery(1)

SpecBulk == InitBulk /\ [][NextBulk]_vars

---------------------------------------------------------------------------
(* POST /run as src/unnamed/part_002 has it: the history row carries       *)
(* parseInt(job_id, 10) for the job_id the query returned.                 *)

\* parseInt(text, 10): leading whitespace is skipped, a sign is read, and
\* the digits that follow give the number; NaN when no digit follows
parseInt10(s) ==
    LET t == TrimLeft(s, Whitespace)
        signed == t # <<>> /\ t[1] \in {"+", "-"}
        u == IF signed THEN Tail(t) ELSE t
        j == SkipWhile(u, 1, Range(DigitChars))
    IN  IF j = 1 THEN NaN
        ELSE Num((IF signed /\ t[1] = "-" THEN -1 ELSE 1)
                    * ParseDigits(SubSeq(u, 1, j - 1)))

\* the number as the insert request carries it: JSON has no NaN, it is null
JsonNumber(x) == IF x = NaN THEN null ELSE x

\* historyRows of part_002 (174-178): one row per row of jobsToSync, rows
\* that come out equal are there as often as they were pushed
RECURSIVE historyRows_parseInt(_, _)
historyRows_parseInt(jobs, now) ==
    IF jobs = {} THEN EmptyBag
    ELSE LET job == CHOOSE j \in jobs : TRUE
         IN  SetToBag({ [user_id |-> job.user_id,
                         job_id |-> JsonNumber(parseInt10(job.job_id)),
                         sent_timestamp |-> now] })
               (+) historyRows_parseInt(jobs \ {job}, now)

\* BigQuery appends the history rows of part_002
HistoryInsertOk_parseInt(r) ==
    /\ historyInsert[r] = "pending"
    /\ match_history' = match_history (+) historyRows_parseInt(jobsToSync[r], nowOf[r].v)
    /\ historyInsert' = [historyInsert EXCEPT ![r] = "fulfilled"]
    /\ Settle(r, firestoreWrites[r], "fulfilled", NoError)
    /\ UNCHANGED <<tables, matchedJobs, clock, jobsToSync, nowOf, firestoreWrites,
                   engine>>

\* a job whose id is its URL
UrlJob == [StudentJob EXCEPT !.job_id = <<"h", "t", "t", "p", ":", "/", "/", "j", "/", "1", "7">>]

JobsUrl == {UrlJob, EngineerJob, LeadJob}

InitParseInt ==
    /\ users_raw_latest = UsersLive
    /\ clean_jobs_view = JobsUrl
    /\ match_history = EmptyBag
    /\ matchedJobs = <<>>
    /\ clock = 0
    /\ pc = [r \in Slots |-> "idle"]
    /\ jobsToSync = [r \in Slots |-> {}]
    /\ nowOf = [r \in Slots |-> NoDate]
    /\ firestoreWrites = [r \in Slots |-> <<>>]
    /\ historyInsert = [r \in Slots |-> "none"]
    /\ res = [r \in Slots |-> NoResponse]
    /\ caught = [r \in Slots |-> NoError]
    /\ EngineIdle

\* passes that follow one another; the table may refuse the rows; no pass
\* starts once the ledger holds MaxLedger rows
NextParseInt ==
    \/ Tick(MaxDayFail)
    \/ BagCardinality(match_history) < MaxLedger /\ RunQuery(1)
    \/ Sync(1)
    \/ \E job \in jobsToSync[1] : MatchWriteOk(1, job)
    \/ HistoryInsertOk_parseInt(1)
    \/ HistoryInsertFail(1)

SpecParseInt == InitParseInt /\ [][NextParseInt]_vars

---------------------------------------------------------------------------
(* The claims.                                                             *)

\* the ledger's rows for a pair, as the claims speak of them
EntriesOf(pm, hist) ==
    { h \in BagToSet(hist) : h.user_id = pm.user_id /\ h.job_id = Str(pm.job_id) }

\* days since the latest entry of a pair
DaysSince(pm, hist, today) ==
    today - SetMax({ DATE(h.sent_timestamp) : h \in EntriesOf(pm, hist) })

IsJunior(status) ==
    status \in {Str(student_position), Str(no_experience_position)}

\* the decision C1 states
StatedDecision(pm, hist, today) ==
    \/ EntriesOf(pm, hist) = {}
    \/ /\ EntriesOf(pm, hist) # {}
       /\ \/ IsJunior(pm.status) /\ DaysSince(pm, hist, today) > 3
          \/ pm.status = Str(experience_position) /\ DaysSince(pm, hist, today) > 14

\* C1: whenever the query is evaluated, the rows it returns are exactly the
\* potential matches with no earlier entry, or of a student or no-experience
\* user with more than 3 days since the latest entry, or of an experienced
\* user with more than 14 days since it.
ThrottleDecision ==
    [][ (pc[1] # "queried" /\ pc'[1] = "queried") =>
          jobsToSync'[1] =
            { pm \in PotentialMatches(users_raw_latest, clean_jobs_view) :
                StatedDecision(pm, match_history, DATE(clock)) } ]_vars

\* a student pair is held back 3 days after its entry while, in the same
\* result, an experienced pair is notified again 15 days after its entry
ThrottleBoundaryReached ==
    /\ pc[1] = "queried"
    /\ \E pm \in PotentialMatches(users_raw_latest, clean_jobs_view) :
        /\ pm.status = Str(student_position)
        /\ EntriesOf(pm, match_history) # {}
        /\ DaysSince(pm, match_history, DATE(clock)) = 3
        /\ pm \notin jobsToSync[1]
    /\ \E pm \in jobsToSync[1] :
        /\ pm.status = Str(experience_position)
        /\ EntriesOf(pm, match_history) # {}
        /\ DaysSince(pm, match_history, DATE(clock)) = 15

\* the cooldown of a user, in days
CooldownOf(user_id) ==
    LET u == CHOOSE d \in users_raw_latest : d.document_id = user_id
    IN  IF u.data.preferences.status = Str(experience_position) THEN 14 ELSE 3

Abs(n) == IF n < 0 THEN -n ELSE n

\* C2: when passes follow one another and succeed, any two entries of the
\* ledger for one pair lie more than the user's cooldown apart in calendar
\* days (more than 3, or more than 14 for an experienced user), and no entry
\* is there twice.
HistorySpacing ==
    \A h1 \in BagToSet(match_history) : \A h2 \in BagToSet(match_history) :
        (h1.user_id = h2.user_id /\ h1.job_id = h2.job_id) =>
            IF h1 = h2
            THEN CopiesIn(h1, match_history) = 1
            ELSE Abs(DATE(h1.sent_timestamp) - DATE(h2.sent_timestamp))
                    > CooldownOf(h1.user_id)

\* the experienced pair was notified on day 0 and again on day 15
NotifiedAgainAfterCooldown ==
    \E h1 \in BagToSet(match_history) : \E h2 \in BagToSet(match_history) :
        /\ h1.user_id = "senior" /\ h2.user_id = "senior"
        /\ h1.job_id = h2.job_id
        /\ DATE(h1.sent_timestamp) = 0
        /\ DATE(h2.sent_timestamp) = 15

\* C3: once the writes of a pass have settled, the ledger holds the entries
\* of that pass only if every match write of the pass succeeded.
HistoryOnlyAfterMatchWrite ==
    (historyInsert[1] = "fulfilled" /\ ~Pending(1)) =>
        \A job \in DOMAIN firestoreWrites[1] : firestoreWrites[1][job] = "fulfilled"

\* C4: a pass whose query failed has answered 500 with the message of the
\* query's error, has started no match write and no insert, and has left
\* the match store and the ledger as they were.
QueryFailureAborts ==
    [][ caught'[1] = QueryError =>
          /\ res'[1] = [status |-> 500, body |-> "Error: " \o QueryError.message]
          /\ firestoreWrites'[1] = <<>>
          /\ historyInsert'[1] = "none"
          /\ match_history' = match_history
          /\ matchedJobs' = matchedJobs ]_vars

\* the query of a pass failed after an earlier pass had written
QueryFailedAfterWrites ==
    /\ caught[1] = QueryError
    /\ pc[1] = "done"
    /\ match_history # EmptyBag

\* C5: a pass of which some writes succeeded and others failed answers with
\* a result that tells the writes attempted from the writes committed.
PartialFailureReported ==
    LET states == { firestoreWrites[1][job] : job \in DOMAIN firestoreWrites[1] }
                    \cup {historyInsert[1]}
    IN  (~Pending(1) /\ "fulfilled" \in states /\ "rejected" \in states) =>
            /\ "attempted" \in DOMAIN res[1]
            /\ "committed" \in DOMAIN res[1]

\* C6: no step removes or changes an entry of the ledger, and the latest
\* entry of a pair, once there, stays there and never becomes earlier.
LedgerAppendOnly ==
    [][ /\ \A h \in BagToSet(match_history) :
            CopiesIn(h, match_history') >= CopiesIn(h, match_history)
        /\ \A pm \in PotentialMatches(users_raw_latest, clean_jobs_view) :
            EntriesOf(pm, match_history) # {} =>
                /\ EntriesOf(pm, match_history') # {}
                /\ DaysSince(pm, match_history', 0) <= DaysSince(pm, match_history, 0)
      ]_vars

\* the ledger holds entries of two passes
LedgerGrewTwice ==
    \E h1 \in BagToSet(match_history) : \E h2 \in BagToSet(match_history) :
        h1.sent_timestamp < h2.sent_timestamp

\* C7: rows added to the ledger only tighten the throttle: a pair the query
\* held back on the ledger as it was is held back on the ledger with the
\* rows added.
ExtraRowsOnlyTighten ==
    (pc[1] = "queried" /\ pc[2] = "queried") => jobsToSync[2] \subseteq jobsToSync[1]

\* a pair held back before and after a copy of one of its rows was added
HeldBackWithDuplicate ==
    /\ pc[1] = "queried"
    /\ pc[2] = "queried"
    /\ \E pm \in PotentialMatches(users_raw_latest, clean_jobs_view) :
        /\ pm \notin jobsToSync[1]
        /\ pm \notin jobsToSync[2]
        /\ \E h \in EntriesOf(pm, match_history) : CopiesIn(h, match_history) >= 2

\* the four criteria as isMatch applies them to the normalized job
domainMatch(u, j) == matchesDomains(u.domains, Arr(normalizeJob(j).domains))
expMatch(u, j) == matchesExperience(u, normalizeJob(j))
locMatch(u, j) == matchesLocation(u.locations, Arr(normalizeJob(j).locations))
leadershipMatch(u, j) == matchesLeadership(u, normalizeJob(j))

\* C8: a call of isMatch gives true exactly when the four criteria all pass
\* on the normalized job, and gives false whenever one of them is false.
IsMatchIffAllFour ==
    (call.fn = "isMatch" /\ returned # NotCalled) =>
        LET u == call.userPreferences
            j == call.jobFromBigQuery
        IN  /\ (returned = Return(TRUE)) <=>
                    /\ domainMatch(u, j)
                    /\ expMatch(u, j)
                    /\ locMatch(u, j)
                    /\ leadershipMatch(u, j) = Return(TRUE)
            /\ ( \/ ~domainMatch(u, j)
                 \/ ~expMatch(u, j)
                 \/ ~locMatch(u, j)
                 \/ leadershipMatch(u, j) = Return(FALSE) ) =>
                    returned = Return(FALSE)

\* C9: the bulk query and the in-process rules accept the same pairs: on
\* the rows that hold a user and a job, PotentialMatches keeps the pair
\* exactly when isMatch, called with that user and that job, gives true.
BulkAcceptsWhatRulesAccept ==
    (call.fn = "isMatch" /\ returned # NotCalled) =>
        ( (returned = Return(TRUE)) <=>
            PotentialMatches({UserDoc(call.userPreferences)},
                             {ViewRow(call.jobFromBigQuery)}) # {} )

EmptyOrAbsent(x) == x \in Absent \/ x.v = <<>>

\* C10: matchesDomains passes when either set is empty or absent, and
\* otherwise passes exactly when the two sets share an id.
DomainsCriterion ==
    (call.fn = "matchesDomains" /\ returned # NotCalled) =>
        returned =
            Return(IF EmptyOrAbsent(call.userDomains) \/ EmptyOrAbsent(call.jobDomains)
                   THEN TRUE
                   ELSE Range(call.userDomains.v) \cap Range(call.jobDomains.v) # {})

\* matchesDomains passed a user who lists domains on a job that lists none
OpenJobPassedDomains ==
    /\ call.fn = "matchesDomains"
    /\ returned = Return(TRUE)
    /\ ~EmptyOrAbsent(call.userDomains)
    /\ EmptyOrAbsent(call.jobDomains)

\* C11: matchesLocation passes when either set is empty or absent, passes
\* when either set holds remote whatever else they hold, and otherwise
\* passes exactly when the two sets share a token.
LocationCriterion ==
    (call.fn = "matchesLocation" /\ returned # NotCalled) =>
        returned =
            Return(CASE EmptyOrAbsent(call.userLocations)
                           \/ EmptyOrAbsent(call.jobLocations) -> TRUE
                     [] OTHER ->
                           \/ remote \in Range(call.userLocations.v)
                           \/ remote \in Range(call.jobLocations.v)
                           \/ Range(call.userLocations.v)
                                 \cap Range(call.jobLocations.v) # {})

\* a user of tel_aviv alone was passed on a job of remote alone, or a user
\* of remote alone on a job of berlin alone
RemoteWildcardPassed ==
    /\ call.fn = "matchesLocation"
    /\ returned = Return(TRUE)
    /\ \/ call.userLocations = Arr(<<tel_aviv>>) /\ call.jobLocations = Arr(<<remote>>)
       \/ call.userLocations = Arr(<<remote>>) /\ call.jobLocations = Arr(<<berlin>>)

\* an array column that is NULL or holds nothing
NoneListed(x) == x = null \/ x.v = <<>>

\* C12: in the bulk query an empty or absent set is open on both sides:
\* a user or a job with no locations passes FILTER 2, a user or a job with
\* no domains passes FILTER 3.
BulkEmptySetOpen ==
    pc[1] = "queried" =>
        \A user \in UserPreferences(users_raw_latest) : \A job \in clean_jobs_view :
            /\ (NoneListed(user.locations) \/ NoneListed(job.locations)) =>
                    Filter2(user, job)
            /\ (NoneListed(user.domains) \/ NoneListed(job.domains)) =>
                    Filter3(user, job)

\* the level of the job is one of the user's managementLevel
LevelIsMember(userPrefs, normalizedJob) ==
    /\ userPrefs.managementLevel.t = "array"
    /\ normalizedJob.leadershipLevel # null
    /\ normalizedJob.leadershipLevel.v \in Range(userPrefs.managementLevel.v)

\* the table of the leadership criterion
LeadershipTable(userPrefs, normalizedJob) ==
    CASE userPrefs.managementInterest = Str(management_only) ->
            LevelIsMember(userPrefs, normalizedJob)
      [] userPrefs.managementInterest = Str(management_and_individual) ->
            \/ normalizedJob.leadershipLevel = null
            \/ LevelIsMember(userPrefs, normalizedJob)
      [] OTHER -> normalizedJob.leadershipLevel = null

\* C13: for an experience_position user matchesLeadership follows the
\* table: absent, none and no_management accept exactly the jobs without a
\* leadership level, management_only exactly the jobs whose level is one of
\* the user's, management_and_individual the jobs without a level and the
\* jobs whose level is one of the user's.
LeadershipFollowsTable ==
    ( /\ call.fn = "matchesLeadership"
      /\ returned # NotCalled
      /\ call.userPrefs.status = Str(experience_position) ) =>
        returned = Return(LeadershipTable(call.userPrefs, call.normalizedJob))

\* C14: a user whose status is not experience_position is never accepted
\* for a job that has a leadership level: matchesLeadership accepts exactly
\* the jobs without one, and isMatch never gives true for a job with one.
NonExperienceNeverLeadership ==
    /\ ( /\ call.fn = "matchesLeadership"
         /\ returned # NotCalled
         /\ call.userPrefs.status # Str(experience_position) ) =>
            returned = Return(call.normalizedJob.leadershipLevel = null)
    /\ ( /\ call.fn = "isMatch"
         /\ returned # NotCalled
         /\ call.userPreferences.status # Str(experience_position)
         /\ Truthy(normalizeJob(call.jobFromBigQuery).leadershipLevel) ) =>
            returned # Return(TRUE)

\* C15: for an experience_position user matchesExperience passes exactly
\* when user.minExperience <= job.maxExp and user.maxExperience >=
\* job.minExp, an absent minExperience counting as 0 and an absent
\* maxExperience as unbounded.
ExperienceOverlap ==
    ( /\ call.fn = "matchesExperience"
      /\ returned # NotCalled
      /\ call.userPrefs.status = Str(experience_position) ) =>
        returned =
            Return( /\ \/ call.userPrefs.minExperience \in Absent
                       \/ call.userPrefs.minExperience.v <= call.normalizedJob.maxExp
                    /\ \/ call.userPrefs.maxExperience \in Absent
                       \/ call.userPrefs.maxExperience.v >= call.normalizedJob.minExp )

\* the user with minExperience and maxExperience in order
Reordered(userPrefs) ==
    IF /\ userPrefs.minExperience.t = "number"
       /\ userPrefs.maxExperience.t = "number"
       /\ userPrefs.minExperience.v > userPrefs.maxExperience.v
    THEN [userPrefs EXCEPT !.minExperience = userPrefs.maxExperience,
                           !.maxExperience = userPrefs.minExperience]
    ELSE userPrefs

\* C16: swapped bounds are reordered: a user with minExperience = b and
\* maxExperience = a, a <= b, gets from matchesExperience and from isMatch
\* what the same user with minExperience = a and maxExperience = b gets.
SwappedBoundsReordered ==
    /\ (call.fn = "matchesExperience" /\ returned # NotCalled) =>
            returned = Return(matchesExperience(Reordered(call.userPrefs),
                                                call.normalizedJob))
    /\ (call.fn = "isMatch" /\ returned # NotCalled) =>
            returned = isMatch(Reordered(call.userPreferences), call.jobFromBigQuery)

\* C17: for a no_experience_position user matchesExperience passes exactly
\* when the job accepts 0 years (job.minExp = 0), whatever the user's
\* minExperience and maxExperience are.
NoExperienceNeedsZero ==
    ( /\ call.fn = "matchesExperience"
      /\ returned # NotCalled
      /\ call.userPrefs.status = Str(no_experience_position) ) =>
        returned = Return(call.normalizedJob.minExp = 0)

\* C20: for a student_position user matchesExperience gives job.isStudentJob,
\* whatever the user's degree and bounds and the job's range are.
StudentIsStudentJob ==
    ( /\ call.fn = "matchesExperience"
      /\ returned # NotCalled
      /\ call.userPrefs.status = Str(student_position) ) =>
        returned = Return(call.normalizedJob.isStudentJob)

\* a student was passed on a student job whose range lies above the
\* student's bounds
StudentPassedOutsideBounds ==
    /\ call.fn = "matchesExperience"
    /\ returned = Return(TRUE)
    /\ call.userPrefs.status = Str(student_position)
    /\ call.userPrefs.maxExperience.t = "number"
    /\ call.userPrefs.maxExperience.v < call.normalizedJob.minExp
    /\ call.normalizedJob.isStudentJob

\* C18: no evaluator throws: a call of matchesExperience, matchesDomains,
\* matchesLocation, matchesLeadership or isMatch returns a boolean.
NoEvaluatorThrows ==
    ( /\ call.fn \in {"matchesExperience", "matchesDomains", "matchesLocation",
                      "matchesLeadership", "isMatch"}
      /\ returned # NotCalled ) =>
        returned \in {Return(TRUE), Return(FALSE)}

\* the tokens written one after another with commas between them
RECURSIVE Joined(_)
Joined(tokens) ==
    IF tokens = <<>> THEN <<>>
    ELSE IF Len(tokens) = 1 THEN tokens[1]
    ELSE tokens[1] \o <<",">> \o Joined(Tail(tokens))

\* the raw job whose text fields are the tokens of a normalized job
AsRawText(normalized) ==
    RawJob(Str(Joined(normalized.locations)), Str(Joined(normalized.domains)),
           null, normalized.leadershipLevel)

\* C19: normalization is idempotent: the tokens normalizeJob produced,
\* joined back into text and normalized again, give the same locations,
\* the same domains and the same leadershipLevel.
NormalizationIdempotent ==
    (call.fn = "normalizeJob" /\ returned # NotCalled) =>
        LET once == returned.value
            twice == normalizeJob(AsRawText(once))
        IN  /\ Range(twice.locations) = Range(once.locations)
            /\ Range(twice.domains) = Range(once.domains)
            /\ twice.leadershipLevel = once.leadershipLevel

\* the case an experience text was put together from
CaseOf(text) == CHOOSE c \in ExperienceCases : ExperienceText(c) = text

\* C21: normalizeJob applies the first pattern that matches, in the order
\* range, number with a plus, single digit that stands alone, none: a range
\* low-high gives minExp = low and maxExp = high; else n+ gives minExp = n
\* and maxExp = 99; else a digit n gives minExp = maxExp = n; else 0 and
\* 99.  isStudentJob is set by the degree marker alone.
ExperienceParseOrder ==
    (call \in ParseExperienceCalls /\ returned # NotCalled) =>
        LET c == CaseOf(call.jobFromBigQuery.experience_level.v)
            digit == c.number.kind = "number" /\ c.number.n < 10
        IN  /\ returned.value.minExp =
                  CASE c.range.kind = "range" -> c.range.low
                    [] c.range.kind # "range" /\ c.plus.kind = "plus" -> c.plus.n
                    [] c.range.kind # "range" /\ c.plus.kind # "plus" /\ digit ->
                          c.number.n
                    [] OTHER -> 0
            /\ returned.value.maxExp =
                  CASE c.range.kind = "range" -> c.range.high
                    [] c.range.kind # "range" /\ c.plus.kind # "plus" /\ digit ->
                          c.number.n
                    [] OTHER -> 99
            /\ returned.value.isStudentJob = (c.degree # <<>>)

\* a text with a degree marker, a single digit, a number with a plus and a
\* range with spaces around the dash was parsed as the range
RangeWonOverPlusAndDigit ==
    /\ call \in ParseExperienceCalls
    /\ returned # NotCalled
    /\ LET c == CaseOf(call.jobFromBigQuery.experience_level.v)
       IN  /\ c.degree # <<>>
           /\ c.number.kind = "number"
           /\ c.plus.kind = "plus"
           /\ c.range.kind = "range"
           /\ c.range.dash # <<"-">>
           /\ c.range.low # c.plus.n
           /\ returned.value.minExp = c.range.low
           /\ returned.value.maxExp = c.range.high

\* the calendar day a tick lies in, and the ticks of that day
CalendarDay(t) == t \div TicksPerDay
TicksOfDay(d) == (d * TicksPerDay) .. (d * TicksPerDay + TicksPerDay - 1)

\* the tick of the latest entry of a pair
LatestSend(pm, hist) == SetMax({ h.sent_timestamp : h \in EntriesOf(pm, hist) })

\* C22: whenever the query is evaluated, a pair with an earlier entry is
\* returned exactly when the calendar day of the check minus the calendar
\* day of the latest send exceeds the cooldown, whatever the ticks within
\* the two days are, and the query gives the same rows at every tick of the
\* day of the check for the same ledger.
CalendarDateDifference ==
    [][ (pc[1] # "queried" /\ pc'[1] = "queried") =>
          /\ \A pm \in PotentialMatches(users_raw_latest, clean_jobs_view) :
                EntriesOf(pm, match_history) # {} =>
                  (pm \in jobsToSync'[1] <=>
                     CalendarDay(clock) - CalendarDay(LatestSend(pm, match_history))
                        > CooldownOf(pm.user_id))
          /\ \A t \in TicksOfDay(CalendarDay(clock)) :
                MASTER_MATCHING_QUERY(users_raw_latest, clean_jobs_view,
                                      match_history, DATE(t)) = jobsToSync'[1]
      ]_vars

\* a student pair sent at the last tick of a day is returned at the first
\* tick of the fourth day after it, less than four whole days later
ReturnedBeforeFourWholeDays ==
    /\ pc[1] = "queried"
    /\ clock % TicksPerDay = 0
    /\ \E pm \in jobsToSync[1] :
        /\ pm.status = Str(student_position)
        /\ EntriesOf(pm, match_history) # {}
        /\ LatestSend(pm, match_history) % TicksPerDay = TicksPerDay - 1
        /\ CalendarDay(clock) - CalendarDay(LatestSend(pm, match_history)) = 4
        /\ clock - LatestSend(pm, match_history) < 4 * TicksPerDay

\* the pair (userId, jobId) of a row
PairOf(job) == <<job.user_id, job.job_id>>

\* the pairs whose match document, and whose ledger rows, carry the time now
UpsertedAt(now) ==
    { key \in DOMAIN matchedJobs : matchedJobs[key].matchedTimestamp = now }
AppendedAt(now) ==
    { h \in BagToSet(match_history) : h.sent_timestamp = now }

\* C23: when a pass has answered 200 after writing, the pairs whose match
\* document it wrote, the pairs whose history row it appended and the pairs
\* the query returned are the same set; each pair has one history row of
\* that pass, and the match store holds its documents under the pairs
\* (userId, jobId), so one document for a pair at most.
WritesAgreeWithResult ==
    (pc[1] = "done" /\ res[1].status = 200 /\ jobsToSync[1] # {}) =>
        /\ UpsertedAt(nowOf[1].v) = { PairOf(job) : job \in jobsToSync[1] }
        /\ { <<h.user_id, h.job_id.v>> : h \in AppendedAt(nowOf[1].v) }
              = { PairOf(job) : job \in jobsToSync[1] }
        /\ Cardinality(AppendedAt(nowOf[1].v)) = Cardinality(jobsToSync[1])
        /\ \A h \in AppendedAt(nowOf[1].v) : CopiesIn(h, match_history) = 1
        /\ res[1].count = Cardinality(UpsertedAt(nowOf[1].v))
        /\ DOMAIN matchedJobs \subseteq
              { PairOf(pm) : pm \in PotentialMatches(users_raw_latest, clean_jobs_view) }

\* a pass answered 200 after notifying a pair for the second time: the
\* ledger has two rows of the pair, the match store one document
SecondNotificationOneDocument ==
    /\ pc[1] = "done" /\ res[1].status = 200
    /\ \E job \in jobsToSync[1] :
        /\ Cardinality(EntriesOf(job, match_history)) = 2
        /\ PairOf(job) \in DOMAIN matchedJobs
        /\ matchedJobs[PairOf(job)].matchedTimestamp = nowOf[1].v

\* the pairs that pass the four filters in the passes that go on for ever
PairsLive == PotentialMatches(UsersLive, Jobs)

\* the last day on which a notification still has a later day, more than
\* the cooldown after it, before the clock stops
LastDayWithSuccessor(pm) == MaxDay - CooldownOf(pm.user_id) - 1

\* the calendar day of the latest entry of a pair
LatestDay(pm) == DATE(LatestSend(pm, match_history))

\* C24: when time goes on and passes keep being run and keep succeeding,
\* a pair that passes the four filters and has been notified is notified
\* again and again: its latest notification comes to lie on a day so late
\* that no day more than the cooldown after it is left before the clock
\* stops, so every notification that has such a day is followed by another.
NotifiedAgainEventually ==
    \A pm \in PairsLive :
        (EntriesOf(pm, match_history) # {})
        ~> (/\ EntriesOf(pm, match_history) # {}
            /\ LatestDay(pm) > LastDayWithSuccessor(pm))

\* a student pair has been notified three times, an experienced pair twice
NotifiedThreeTimes ==
    /\ \E pm \in PairsLive :
        /\ pm.status = Str(student_position)
        /\ Cardinality(EntriesOf(pm, match_history)) = 3
    /\ \E pm \in PairsLive :
        /\ pm.status = Str(experience_position)
        /\ Cardinality(EntriesOf(pm, match_history)) = 2

\* C25: when passes overlap, no pair is notified by two of them: the ledger
\* never holds two entries of one pair that lie closer together than the
\* pair's cooldown, nor one entry twice, and two passes whose history rows
\* were both appended have no pair in common.
OverlapNotifiesOnce ==
    /\ \A pm \in PotentialMatches(users_raw_latest, clean_jobs_view) :
         \A h1 \in EntriesOf(pm, match_history) :
            /\ CopiesIn(h1, match_history) = 1
            /\ \A h2 \in EntriesOf(pm, match_history) \ {h1} :
                  Abs(CalendarDay(h1.sent_timestamp) - CalendarDay(h2.sent_timestamp))
                     > CooldownOf(pm.user_id)
    /\ \A r1 \in Slots : \A r2 \in Slots \ {r1} :
         (historyInsert[r1] = "fulfilled" /\ historyInsert[r2] = "fulfilled") =>
            { PairOf(job) : job \in jobsToSync[r1] }
               \cap { PairOf(job) : job \in jobsToSync[r2] } = {}

\* C26: when a pass has answered 200 after writing, the lookup of the next
\* pass finds, for every pair the pass notified, an entry under the pair's
\* key: the latest send time it reads for the pair is the time of the pass,
\* whether the job id is a number or a URL.
HistoryKeyJoins ==
    (pc[1] = "done" /\ res[1].status = 200 /\ jobsToSync[1] # {}) =>
        \A job \in jobsToSync[1] :
            last_sent(job, match_history) = Num(nowOf[1].v)

====
